---- MODULE Spec2Model ----
(***************************************************************************)
(* CompiledLib::compile, routines_count and routine of                     *)
(* src/library/compiler.rs: the two passes over the instruction slice      *)
(* (routine table scan, local goto patching), the call of the assembler    *)
(* and the lookups on the compiled library.                                *)
(***************************************************************************)
EXTENDS Integers, Sequences, FiniteSets, TLC

\* ---------------------------------------------------------------- bounds

\* Longest instruction slice handed to compile.
MaxCode == 3

\* Routine indexes an input instruction's local goto field may name.
GotoIdx == {0, 1}

\* Number of values of u16 (cursor, routine offsets, goto fields).
U16Range == 65536

\* Byte lengths code_byte_len() may report: empty, ordinary, and one so long
\* that two of them exceed the 16-bit range.
Lens == {0, 3, 40000}

\* ------------------------------------------------------------ instructions

\* An instruction as compile sees it: its encoded length, whether it is a
\* local goto target, and its local goto field (has = FALSE: None).
Instr == [len : Lens, target : BOOLEAN, has : BOOLEAN, pos : GotoIdx]

\* Input instructions: an absent goto field holds no value (pos = 0).
InputInstr == {i \in Instr : ~i.has => i.pos = 0}

code_byte_len(instr) == instr.len

is_local_goto_target(instr) == instr.target

\* Some(&mut pos) or None
local_goto_pos(instr) == IF instr.has THEN <<instr.pos>> ELSE <<>>

\* All slices of at most n input instructions.
RECURSIVE Slices(_)
Slices(n) ==
    IF n = 0 THEN {<<>>}
    ELSE LET S == Slices(n - 1)
         IN  S \cup {Append(s, i) : s \in {t \in S : Len(t) = n - 1}, i \in InputInstr}

\* ---------------------------------------------------------------- u16

\* cursor += len on u16 with overflow checks off: two's complement wrap.
WrappingAdd(a, b) == (a + b) % U16Range

\* cursor += len overflows u16.
Overflows(a, b) == a + b >= U16Range

\* Mutant: the lookup is one entry off (routines.get(i + 1)).
GetOffByOne(routines, i) ==
    IF i + 1 < Len(routines) THEN <<routines[i + 2]>> ELSE <<>>

\* routines.get(i): Some(pos) as <<pos>>, None as <<>> (i is 0-based).
Get(routines, i) == IF i < Len(routines) THEN <<routines[i + 1]>> ELSE <<>>

\* ------------------------------------------------------ assembler (external)

\* Lib::assemble(code): the binary unit is the content of the patched slice.
Assemble(code) == [k \in 1..Len(code) |-> <<code[k].len, code[k].has, code[k].pos>>]

\* lib.lib_id(): a digest of the unit's content.
RECURSIVE Digest(_, _)
Digest(lib, k) ==
    IF k = 0 THEN 7
    ELSE (31 * Digest(lib, k - 1) + lib[k][1] + (IF lib[k][2] THEN 1 + lib[k][3] ELSE 0)) % 1009

lib_id(lib) == Digest(lib, Len(lib))

\* ---------------------------------------------------------------- state

VARIABLES
    checks,     \* overflow checks of the build: "on" (debug), "off" (release),
                \* "unknown" until an addition overflows
    asm,        \* Lib::assemble on the patched slice: "accepts", "rejects",
                \* "unknown" until it is called
    orig,       \* the slice as the caller handed it to compile
    code,       \* the slice, mutated in place
    pc,         \* position in compile: "scan", "patch", then its outcome
    no,         \* position of the next instruction of the running loop
    cursor,     \* byte cursor of the running loop
    routines,   \* the routine table
    offs1,      \* cursor values of the first loop, one per position reached
    table1,     \* the routine table as the first loop left it
    err,        \* InvalidRef(instr, no, cursor, routines), as a tuple, or <<>>
    unit,       \* the CompiledLib {id, lib, routines}, as a tuple, or <<>>
    site,       \* what the last routine(no) call gave
    run,        \* 1: first compilation of orig, 2: second
    first       \* outcome of the first compilation, once the second started

vars == <<checks, asm, orig, code, pc, no, cursor, routines, offs1, table1,
          err, unit, site, run, first>>

NoSite == [kind |-> "none", arg |-> 0, id |-> 0, pos |-> 0]

\* State at line 58: empty table, cursor 0, loop not started.
Init ==
    /\ checks = "unknown"
    /\ asm = "unknown"
    /\ orig \in Slices(MaxCode)
    /\ code = orig
    /\ pc = "scan"
    /\ no = 0
    /\ cursor = 0
    /\ routines = <<>>
    /\ offs1 = <<>>
    /\ table1 = <<>>
    /\ err = <<>>
    /\ unit = <<>>
    /\ site = NoSite
    /\ run = 1
    /\ first = <<>>

\* ---------------------------------------------------------------- compile

\* cursor += instr.code_byte_len(): on overflow it panics in a build with
\* overflow checks and wraps in a build without; the loop goes on at `here`.
Advance(instr, here) ==
    IF Overflows(cursor, code_byte_len(instr))
    THEN \E c \in (IF checks = "unknown" THEN {"on", "off"} ELSE {checks}) :
            /\ checks' = c
            /\ IF c = "on"
               THEN /\ pc' = "panic"
                    /\ UNCHANGED <<cursor, no>>
               ELSE /\ cursor' = WrappingAdd(cursor, code_byte_len(instr))
                    /\ no' = no + 1
                    /\ pc' = here
    ELSE /\ cursor' = cursor + code_byte_len(instr)
         /\ no' = no + 1
         /\ pc' = here
         /\ UNCHANGED checks

\* One iteration of the first loop (lines 59-64).
ScanStep ==
    /\ pc = "scan"
    /\ no < Len(code)
    /\ LET instr == code[no + 1]
       IN  /\ routines' = IF is_local_goto_target(instr)
                          THEN Append(routines, cursor)
                          ELSE routines
           /\ offs1' = Append(offs1, cursor)
           /\ Advance(instr, "scan")
    /\ UNCHANGED <<asm, orig, code, table1, err, unit, site, run, first>>

\* The first loop ends; the second starts with a fresh cursor (line 65).
ScanDone ==
    /\ pc = "scan"
    /\ no = Len(code)
    /\ pc' = "patch"
    /\ no' = 0
    /\ cursor' = 0
    /\ table1' = routines
    /\ UNCHANGED <<checks, asm, orig, code, routines, offs1, err, unit, site, run, first>>

\* CompilerError::InvalidRef(instr.clone(), no, cursor, routines) (line 72).
InvalidRef(instr, n, offset, known) == <<instr, n, offset, known>>

\* Mutant: the looked-up offset is never written to the goto field.
PatchedKeepsIndex(instr, pos) == instr

\* Mutant: writing the offset also re-encodes the instruction two bytes longer.
PatchedResized(instr, pos) == [instr EXCEPT !.pos = pos, !.len = instr.len + 2]

\* *goto_pos = *pos (line 74).
Patched(instr, pos) == [instr EXCEPT !.pos = pos]

\* One iteration of the second loop (lines 66-76).
PatchStep ==
    /\ pc = "patch"
    /\ no < Len(code)
    /\ LET instr == code[no + 1]
           goto_pos == local_goto_pos(instr)
       IN  IF goto_pos = <<>>
           THEN /\ Advance(instr, "patch")
                /\ UNCHANGED <<code, err>>
           ELSE LET pos == Get(routines, goto_pos[1])
                IN  IF pos = <<>>
                    THEN /\ err' = InvalidRef(instr, no, cursor, routines)
                         /\ pc' = "invalid_ref"
                         /\ UNCHANGED <<code, cursor, no, checks>>
                    ELSE /\ code' = [code EXCEPT ![no + 1] = Patched(instr, pos[1])]
                         /\ Advance(instr, "patch")
                         /\ UNCHANGED err
    /\ UNCHANGED <<asm, orig, routines, offs1, table1, unit, site, run, first>>

\* Lib::assemble(code)?, lib.lib_id(), Ok(Self { id, lib, routines }) (lines 77-79).
Finish ==
    /\ pc = "patch"
    /\ no = Len(code)
    /\ \E a \in (IF asm = "unknown" THEN {"accepts", "rejects"} ELSE {asm}) :
          /\ asm' = a
          /\ IF a = "accepts"
             THEN LET lib == Assemble(code)
                  IN  /\ unit' = <<lib_id(lib), lib, routines>>
                      /\ pc' = "ok"
             ELSE /\ pc' = "assemble_err"
                  /\ UNCHANGED unit
    /\ UNCHANGED <<checks, orig, code, no, cursor, routines, offs1, table1,
                   err, site, run, first>>

\* ------------------------------------------------------------ CompiledLib

routines_count(self) == Len(self[3])

\* Mutant: the bound of the lookup is one too wide and reads offset 0 there.
routineOffByOne(self, n) ==
    IF n <= Len(self[3])
    THEN [kind |-> "site", arg |-> n, id |-> self[1],
          pos |-> IF n < Len(self[3]) THEN self[3][n + 1] ELSE 0]
    ELSE [kind |-> "panic", arg |-> n, id |-> 0, pos |-> 0]

\* routine(no): self.routines[no as usize] panics out of bounds.
routine(self, n) ==
    IF n < Len(self[3])
    THEN [kind |-> "site", arg |-> n, id |-> self[1], pos |-> self[3][n + 1]]
    ELSE [kind |-> "panic", arg |-> n, id |-> 0, pos |-> 0]

\* A caller asks for the entry point of routine n.
Routine ==
    /\ pc = "ok"
    /\ \E n \in 0..MaxCode : site' = routine(unit, n)
    /\ UNCHANGED <<checks, asm, orig, code, pc, no, cursor, routines, offs1, table1,
                   err, unit, run, first>>

\* ---------------------------------------------------------- second compile

Terminal == pc \in {"ok", "invalid_ref", "assemble_err", "panic"}

\* What a caller observes of a finished compile.
Outcome == <<pc, err, unit>>

\* Mutant: the second compilation starts with the table of the first instead
\* of an empty one.
RecompileKeepsTable ==
    /\ Terminal
    /\ run = 1
    /\ first' = Outcome
    /\ run' = 2
    /\ code' = orig
    /\ pc' = "scan"
    /\ no' = 0
    /\ cursor' = 0
    /\ offs1' = <<>>
    /\ table1' = <<>>
    /\ err' = <<>>
    /\ unit' = <<>>
    /\ site' = NoSite
    /\ UNCHANGED <<checks, asm, orig, routines>>

\* The caller compiles the same input once more, from line 54.
Recompile ==
    /\ Terminal
    /\ run = 1
    /\ first' = Outcome
    /\ run' = 2
    /\ code' = orig
    /\ pc' = "scan"
    /\ no' = 0
    /\ cursor' = 0
    /\ routines' = <<>>
    /\ offs1' = <<>>
    /\ table1' = <<>>
    /\ err' = <<>>
    /\ unit' = <<>>
    /\ site' = NoSite
    /\ UNCHANGED <<checks, asm, orig>>

Next == ScanStep \/ ScanDone \/ PatchStep \/ Finish \/ Routine \/ Recompile

Spec == Init /\ [][Next]_vars

\* ------------------------------------------------------------- properties

\* The unbounded sum of code_byte_len() over the first k instructions of c.
RECURSIVE ByteLen(_, _)
ByteLen(c, k) == IF k = 0 THEN 0 ELSE ByteLen(c, k - 1) + c[k].len

\* Positions (1-based) of the local goto targets of c among its first k.
TargetsUpTo(c, k) == {p \in 1..k : c[p].target}

\* Positions (1-based) whose goto field names no entry of a table of n entries.
Dangling(c, n) == {p \in 1..Len(c) : c[p].has /\ c[p].pos >= n}

Min(S) == CHOOSE x \in S : \A y \in S : x <= y

\* C1: after the first pass, the entry of the routine table for the i-th local
\* goto target, at position p, is the sum of the byte lengths of the
\* instructions before p.
C1_TableHoldsByteOffsets ==
    pc = "patch" =>
        \A p \in TargetsUpTo(code, Len(code)) :
            LET i == Cardinality(TargetsUpTo(code, p - 1))
            IN  /\ i < Len(routines)
                /\ routines[i + 1] = ByteLen(code, p - 1)

\* C2: once the second pass got through without InvalidRef, every goto field
\* that named routine index i holds routines[i], whether the target lies before
\* or after it.
C2_GotoHoldsTableEntry ==
    (pc \in {"ok", "assemble_err"} \/ (pc = "patch" /\ no = Len(code))) =>
        \A p \in 1..Len(orig) :
            (orig[p].has /\ orig[p].pos < Len(routines)) =>
                /\ code[p].has
                /\ code[p].pos = routines[orig[p].pos + 1]

\* Position (1-based) of the k-th (1-based) target of c.
RECURSIVE TargetPos(_, _)
TargetPos(c, k) ==
    IF k = 1 THEN Min(TargetsUpTo(c, Len(c)))
    ELSE Min({p \in TargetsUpTo(c, Len(c)) : p > TargetPos(c, k - 1)})

\* A unit compiled from a slice with a forward and a backward reference, both
\* rewritten to a nonzero offset.
C2_Witness ==
    /\ pc = "ok"
    /\ \E p, q \in 1..Len(orig) :
          /\ orig[p].has /\ orig[q].has
          /\ TargetPos(orig, orig[p].pos + 1) > p
          /\ TargetPos(orig, orig[q].pos + 1) < q
          /\ code[p].pos > 1 /\ code[q].pos > 1

\* C3: InvalidRef is raised for the first instruction whose goto field names no
\* entry, with its position, its byte offset (the sum of the byte lengths of
\* the instructions before it) and the routine table of the whole slice.
C3_InvalidRefReportsFirstDangling ==
    LET n == Cardinality(TargetsUpTo(orig, Len(orig)))
        bad == Dangling(orig, n)
    IN  /\ (pc \in {"ok", "assemble_err", "invalid_ref"} /\ bad # {}) => pc = "invalid_ref"
        /\ pc = "invalid_ref" =>
              /\ bad # {}
              /\ err[1] = orig[Min(bad)]
              /\ err[2] = Min(bad) - 1
              /\ err[3] = ByteLen(orig, Min(bad) - 1)
              /\ Len(err[4]) = n
              /\ \A k \in 1..n : err[4][k] = ByteLen(orig, TargetPos(orig, k) - 1)

\* C4: in both passes the cursor is the unbounded sum of the byte lengths of
\* the instructions processed so far, and no table entry or reported offset
\* is a value reduced modulo 2^16.
C4_CursorNeverWraps ==
    /\ pc \in {"scan", "patch"} => cursor = ByteLen(code, no)
    /\ \A k \in 1..Len(routines) : \E p \in 0..Len(code) : routines[k] = ByteLen(code, p)
    /\ pc = "invalid_ref" => err[3] = ByteLen(code, err[2])

\* C5: a CompiledLib exists exactly when compile returned Ok, which it does
\* exactly when every goto field names a table entry and the assembler
\* accepts the fully patched slice; with an unresolved reference compile
\* ends with InvalidRef and no call of the assembler, with a failed assembly
\* it ends with Assemble, and neither leaves a CompiledLib.
C5_ConstructionIsAtomic ==
    LET n == Cardinality(TargetsUpTo(orig, Len(orig)))
        resolved == Dangling(orig, n) = {}
    IN  /\ unit # <<>> <=> pc = "ok"
        /\ Terminal => (pc = "ok" <=> (resolved /\ asm = "accepts"))
        /\ pc = "ok" => unit[2] = Assemble([p \in 1..Len(orig) |->
                            IF orig[p].has
                            THEN [orig[p] EXCEPT !.pos = routines[orig[p].pos + 1]]
                            ELSE orig[p]])
        /\ (Terminal /\ ~resolved) => (pc = "invalid_ref" /\ asm = "unknown")
        /\ (Terminal /\ resolved /\ asm = "rejects") => pc = "assemble_err"

\* What holds of C5 in every build: no unit outside Ok, Ok only for a resolved
\* and accepted slice, and an unresolved reference ends compile with
\* InvalidRef or with the overflow panic, the assembler never called.
AtomicOrPanics ==
    LET n == Cardinality(TargetsUpTo(orig, Len(orig)))
        resolved == Dangling(orig, n) = {}
    IN  /\ unit # <<>> <=> pc = "ok"
        /\ Terminal => (pc = "ok" <=> (resolved /\ asm = "accepts"))
        /\ ~resolved => asm = "unknown"
        /\ (Terminal /\ ~resolved) => pc \in {"invalid_ref", "panic"}
        /\ (Terminal /\ pc # "panic" /\ ~resolved) => pc = "invalid_ref"
        /\ pc = "panic" => checks = "on"
        /\ (Terminal /\ resolved /\ asm = "rejects") => pc = "assemble_err"

C7_RoutineLookup ==
    pc = "ok" =>
        /\ routines_count(unit) = Cardinality(TargetsUpTo(orig, Len(orig)))
        /\ unit[1] = lib_id(unit[2])
        /\ unit[3] = routines
        /\ site.kind = "site" =>
              /\ site.arg < routines_count(unit)
              /\ site.id = unit[1]
              /\ site.pos = routines[site.arg + 1]
        /\ site.kind = "panic" => site.arg >= routines_count(unit)
        /\ site.kind # "none" => (site.kind = "site" <=> site.arg < routines_count(unit))

\* routine(1) gave the site of the second routine of a unit with two.
C7_Witness ==
    /\ pc = "ok"
    /\ routines_count(unit) = 2
    /\ site.kind = "site"
    /\ site.arg = 1
    /\ site.pos > 0

\* C8: when compile fails with InvalidRef at position n, the goto fields before
\* n hold their routine table offsets, the instructions from n on are as they
\* came in, and the instruction in the error is the unpatched one.
C8_PartiallyPatchedOnInvalidRef ==
    pc = "invalid_ref" =>
        LET n == err[2]
        IN  /\ n < Len(orig)
            /\ \A p \in 1..n :
                  orig[p].has => code[p].pos = routines[orig[p].pos + 1]
            /\ \A p \in (n + 1)..Len(orig) : code[p] = orig[p]
            /\ err[1] = orig[n + 1]

\* InvalidRef at the last of three instructions, after an earlier goto field
\* was rewritten to another value than it came with.
C8_Witness ==
    /\ pc = "invalid_ref"
    /\ err[2] = 2
    /\ \E p \in 1..2 : orig[p].has /\ code[p].pos # orig[p].pos

\* C9: from the end of the first pass on, the slice differs from the input in
\* goto fields only, the routine table is the one the first pass left, and the
\* cursor of the second pass is at each position the cursor the first pass had
\* there.
C9_PatchTouchesGotoFieldsOnly ==
    pc \in {"patch", "ok", "assemble_err", "invalid_ref"} =>
        /\ Len(code) = Len(orig)
        /\ \A p \in 1..Len(orig) :
              /\ code[p].len = orig[p].len
              /\ code[p].target = orig[p].target
              /\ code[p].has = orig[p].has
              /\ ~orig[p].has => code[p] = orig[p]
        /\ routines = table1
        /\ Len(offs1) = Len(code)
        /\ (pc = "patch" /\ no < Len(code)) => cursor = offs1[no + 1]
        /\ pc = "invalid_ref" => err[3] = offs1[err[2] + 1]
        /\ pc = "invalid_ref" => err[4] = table1

\* The second pass is at its last instruction, has rewritten a goto field and
\* its cursor is past the start.
C9_Witness ==
    /\ pc = "patch"
    /\ no = 2
    /\ Len(code) = 3
    /\ cursor > 0
    /\ \E p \in 1..2 : code[p].has /\ code[p].pos # orig[p].pos

\* C10: the routine table of the first pass is non-decreasing, and increasing
\* when every instruction has a positive byte length.
C10_TableIsMonotone ==
    pc = "patch" =>
        \A i, j \in 1..Len(routines) :
            i < j => /\ routines[i] <= routines[j]
                     /\ (\A p \in 1..Len(code) : code[p].len > 0) => routines[i] < routines[j]

====
